---- MODULE Spec2Model ----
(***************************************************************************)
(* Jammu weather dashboard: the dashboard script app.py (historical fetch  *)
(* with CSV fallback behind st.cache_data, Prophet forecast, real-time     *)
(* fetch, tab rendering) and the export script get_data.py that writes the *)
(* fallback CSV.                                                           *)
(*                                                                         *)
(* A dataframe is [index, cols, rows]: the name of its index, the set of   *)
(* its column names, and its rows in order; a row is [ds, nan]: the value  *)
(* of its index (a day number, days since 2020-01-01) and the set of       *)
(* columns whose cell is missing (NaN) in that row.                        *)
(***************************************************************************)
EXTENDS Integers, Sequences, FiniteSets, TLC

VARIABLES
    remote,     \* the daily dataset the Meteostat provider serves for Jammu
    csv,        \* the file 'jammu_historical_weather.csv' in the working directory
    cache,      \* st.cache_data store of get_historical_data: end_date -> frame
    now,        \* the wall clock, read by datetime.now()
    apiKey,     \* the key in .streamlit/secrets.toml, read by every run (18-22)
    pc,         \* position of the current run of app.py
    hist,       \* historical_df of the current run
    histSrc,    \* which return statement of get_historical_data produced hist
    fc,         \* forecast_df of the current run
    rt,         \* real_time_data of the current run
    calls,      \* what the current run has called so far
    tabs,       \* what the current run has rendered in each tab
    exp         \* get_data.py: where its run stands, its fetch, its last message

vars == <<remote, csv, cache, now, apiKey, pc, hist, histSrc, fc, rt, calls, tabs, exp>>

----------------------------------------------------------------------------
(* Bounds of the model *)

MaxRows == 32
MaxClock == 1

(* Program constants *)

StartDay == 0
MinComplete == 30
MinProphetRows == 30
ForecastPeriods == 15
TableRows == 15
NaT == -1

----------------------------------------------------------------------------
(* Dataframes *)

EmptyDataFrame == [index |-> "", cols |-> {}, rows |-> <<>>]

empty(df) == Len(df.rows) = 0 \/ df.cols = {}

MkFrame(n, cols, trail, k) ==
    [index |-> "time",
     cols  |-> cols,
     rows  |-> [i \in 1..n |->
                 [ds  |-> StartDay + i - 1,
                  nan |-> ((IF i > n - trail THEN {"prcp"} ELSE {})
                           \cup (IF i >= 2 /\ i <= 1 + k THEN {"snow"} ELSE {}))
                          \cap cols]]]

ColSets == {{"prcp", "tavg", "snow"}, {"tavg", "snow"}, {"prcp", "snow"}, {}}

NaNCounts == {0, 1}

RowCounts == {0} \cup ((MaxRows - 2)..MaxRows)

ProviderFrames ==
    {MkFrame(n, c, t, k) : n \in RowCounts, c \in ColSets,
                            t \in NaNCounts, k \in NaNCounts}

dropna(df) == SelectSeq(df.rows, LAMBDA r : r.nan \cap df.cols = {})

----------------------------------------------------------------------------
(* The CSV file: absent, zero bytes, or a header line and data lines *)

NoFile == [kind |-> "absent"]
ZeroByteFile == [kind |-> "zero"]

to_csv(df) ==
    [kind   |-> "text",
     header |-> [label |-> df.index, names |-> df.cols],
     lines  |-> [i \in 1..Len(df.rows) |->
                  [key |-> df.rows[i].ds, blank |-> df.rows[i].nan]]]

Truncated(file, n) == [file EXCEPT !.lines = SubSeq(file.lines, 1, n)]

read_csv(file) ==
    IF file.kind = "absent" THEN [raised |-> "FileNotFoundError"]
    ELSE IF file.kind = "zero" THEN [raised |-> "EmptyDataError"]
    ELSE [raised |-> "",
          df |-> [index |-> file.header.label,
                  cols  |-> file.header.names,
                  rows  |-> [i \in 1..Len(file.lines) |->
                              [ds |-> file.lines[i].key, nan |-> file.lines[i].blank]]]]

----------------------------------------------------------------------------
(* get_historical_data (app.py 30-60), the body behind the cache.           *)
(* fetch is the outcome of Point/Daily/fetch: "ok" or "raise"; provided is  *)
(* the frame the provider serves; file is the fallback file on disk.        *)

Sufficient_AtLeast(df) ==
    ~empty(df) /\ "prcp" \in df.cols /\ Len(dropna(df)) >= MinComplete

Sufficient(df) ==
    ~empty(df) /\ "prcp" \in df.cols /\ Len(dropna(df)) > MinComplete

get_historical_data(fetch, provided, file) ==
    IF fetch = "ok" /\ Sufficient(provided)
    THEN [raised |-> "", df |-> provided, src |-> "meteostat",
          provider |-> 1, reads |-> 0]
    ELSE LET r == read_csv(file) IN
         IF r.raised = ""
         THEN [raised |-> "", df |-> r.df, src |-> "csv",
               provider |-> 1, reads |-> 1]
         ELSE IF r.raised = "FileNotFoundError"
         THEN [raised |-> "", df |-> EmptyDataFrame, src |-> "none",
               provider |-> 1, reads |-> 1]
         ELSE [raised |-> r.raised, df |-> EmptyDataFrame, src |-> "raised",
               provider |-> 1, reads |-> 1]

----------------------------------------------------------------------------
(* get_forecast_data (app.py 79-101) *)

RECURSIVE SortedSeq(_)
SortedSeq(S) ==
    IF S = {} THEN <<>>
    ELSE LET m == CHOOSE x \in S : \A y \in S : x <= y
         IN <<m>> \o SortedSeq(S \ {m})

prophet_rows(df) ==
    SelectSeq(df.rows, LAMBDA r : r.ds # NaT /\ "prcp" \notin r.nan)

TooFew(n) == n < MinProphetRows

(* Prophet.fit keeps the dates of its history: the distinct values of ds,   *)
(* in ascending order                                                       *)
history_dates(rows) == SortedSeq({rows[i].ds : i \in 1..Len(rows)})

(* pandas.date_range(start, periods, freq='D') *)
date_range(start, periods) == [i \in 1..periods |-> start + i - 1]

(* Prophet.make_future_dataframe(periods, freq='D', include_history=True):  *)
(* the range of periods + 1 days from the last date of the history, the     *)
(* dates after that last date, the first periods of them, put after the     *)
(* dates of the history                                                     *)
make_future_dataframe(dates, periods) ==
    LET last_date == dates[Len(dates)]
        later == SelectSeq(date_range(last_date, periods + 1),
                           LAMBDA d : d > last_date)
    IN dates \o SubSeq(later, 1, periods)

(* Prophet.predict(future): one row for each date of future *)
predict(future) ==
    [index |-> "",
     cols  |-> {"ds", "yhat", "yhat_lower", "yhat_upper"},
     rows  |-> [i \in 1..Len(future) |-> [ds |-> future[i], nan |-> {}]]]

(* reset_index (line 86): the index becomes a column named after it, or     *)
(* 'index' when it has no name; a column of that name raises ValueError     *)
reset_index(df) ==
    IF df.index \in df.cols
    THEN [raised |-> "ValueError", columns |-> {}]
    ELSE [raised |-> "",
          columns |-> df.cols \cup {IF df.index = "" THEN "index" ELSE df.index}]

(* rename(columns={'time': 'ds', 'prcp': 'y'}) (line 86) *)
rename(columns) ==
    {IF c = "time" THEN "ds" ELSE IF c = "prcp" THEN "y" ELSE c : c \in columns}

NoForecast(raised) ==
    [raised |-> raised, df |-> EmptyDataFrame, fits |-> 0, predicts |-> 0]

get_forecast_data_OnePeriodShort(df) ==
    IF empty(df) \/ "prcp" \notin df.cols THEN NoForecast("")
    ELSE IF reset_index(df).raised # "" THEN NoForecast(reset_index(df).raised)
    ELSE IF ~({"ds", "y"} \subseteq rename(reset_index(df).columns))
    THEN NoForecast("KeyError")
    ELSE LET p == prophet_rows(df) IN
         IF TooFew(Len(p)) THEN NoForecast("")
         ELSE [raised |-> "",
               df |-> predict(make_future_dataframe(history_dates(p),
                                                    ForecastPeriods - 1)),
               fits |-> 1, predicts |-> 1]

(* The columns of a frame are weather variables (none is named time, ds, y  *)
(* or index), so the ds column of line 87 is the index, when it is named    *)
(* 'time' or 'ds'; with any other index line 87 raises KeyError             *)
get_forecast_data(df) ==
    IF empty(df) \/ "prcp" \notin df.cols THEN NoForecast("")
    ELSE IF reset_index(df).raised # "" THEN NoForecast(reset_index(df).raised)
    ELSE IF ~({"ds", "y"} \subseteq rename(reset_index(df).columns))
    THEN NoForecast("KeyError")
    ELSE LET p == prophet_rows(df) IN
         IF TooFew(Len(p)) THEN NoForecast("")
         ELSE [raised |-> "",
               df |-> predict(make_future_dataframe(history_dates(p),
                                                    ForecastPeriods)),
               fits |-> 1, predicts |-> 1]

----------------------------------------------------------------------------
(* Values of real_time_data. A value is Python's None, a list, a string or  *)
(* a number (len: its length, or the number), or a dict. Of a dict the      *)
(* members the Real-time tab reads are kept, each by the shape of its       *)
(* value: absent, null, a dict (its keys), a list (its items), a string     *)
(* (len: its length) or a number (len: its decimal exponent, the number     *)
(* being 10^len); extra tells whether the dict has other keys (such as      *)
(* cod). An item of a list is a dict, of which the shape of its             *)
(* 'description' is kept, or some other value.                              *)

Absent == [type |-> "absent", keys |-> {}, items |-> <<>>, len |-> 0]
Null == [type |-> "null", keys |-> {}, items |-> <<>>, len |-> 0]
Dict(keys) == [type |-> "dict", keys |-> keys, items |-> <<>>, len |-> 0]
List(items) == [type |-> "list", keys |-> {}, items |-> items, len |-> Len(items)]
Number(exponent) == [type |-> "number", keys |-> {}, items |-> <<>>, len |-> exponent]
String(len) == [type |-> "str", keys |-> {}, items |-> <<>>, len |-> len]

Entry(description) == [type |-> "dict", description |-> description]
Scalar(type) == [type |-> type, description |-> "absent"]

NoneValue ==
    [kind |-> "None", len |-> 0, extra |-> FALSE,
     main |-> Absent, wind |-> Absent, weather |-> Absent, dt |-> Absent]

Plain(kind, len) == [NoneValue EXCEPT !.kind = kind, !.len = len]

Object(extra, main, wind, weather, dt) ==
    [kind |-> "dict", len |-> 0, extra |-> extra,
     main |-> main, wind |-> wind, weather |-> weather, dt |-> dt]

(* The time of a current observation, about 1.7 * 10^9 seconds *)
FullWeather ==
    Object(TRUE, Dict({"temp", "humidity"}), Dict({"speed"}),
           List(<<Entry("str")>>), Number(9))

(* Bodies that parse as JSON: null, [1], "ok", [], 7, and objects *)
JsonBodies ==
    {NoneValue, Plain("list", 1), Plain("str", 2), Plain("list", 0),
     Plain("number", 7),
     Object(FALSE, Absent, Absent, Absent, Absent),
     Object(TRUE, Absent, Absent, Absent, Absent),
     Object(TRUE, Dict({}), Absent, Absent, Absent),
     Object(FALSE, Dict({"temp"}), Absent, Absent, Absent),
     Object(TRUE, Dict({"temp", "humidity"}), Null, Absent, Absent),
     [FullWeather EXCEPT !.weather = List(<<>>)],
     [FullWeather EXCEPT !.weather = List(<<Entry("absent")>>)],
     [FullWeather EXCEPT !.weather = List(<<Entry("null")>>)],
     [FullWeather EXCEPT !.weather = List(<<Entry("number")>>)],
     [FullWeather EXCEPT !.weather = List(<<Scalar("str"), Entry("str")>>)],
     [FullWeather EXCEPT !.weather = Dict({"0"})],
     [FullWeather EXCEPT !.weather = String(0)],
     [FullWeather EXCEPT !.weather = String(4)],
     [FullWeather EXCEPT !.dt = String(10)],
     [FullWeather EXCEPT !.dt = Null],
     [FullWeather EXCEPT !.dt = Number(12)],
     [FullWeather EXCEPT !.dt = Number(17)],
     [FullWeather EXCEPT !.dt = Number(20)],
     FullWeather}

----------------------------------------------------------------------------
(* get_real_time_data (app.py 62-76). resp is the outcome of the one HTTP   *)
(* request: what requests.get and raise_for_status do ("ok" for a 2xx       *)
(* answer, or the exception), whether the body of a 2xx answer is JSON and  *)
(* what it parses to, and what response.json() raises when it is not: a     *)
(* RequestException with requests 2.27 or later, a plain ValueError before  *)
(* (no version is pinned).                                                  *)

ApiKeys == {"None", "", "k3y"}

HttpOutcomes ==
    {[status |-> "ok", json |-> TRUE, body |-> b, decode |-> ""] : b \in JsonBodies}
    \cup {[status |-> "ok", json |-> FALSE, body |-> NoneValue, decode |-> e] :
            e \in {"RequestException", "ValueError"}}
    \cup {[status |-> e, json |-> FALSE, body |-> NoneValue, decode |-> ""] :
            e \in {"Timeout", "ConnectionError", "HTTPError"}}

NoResponse == [status |-> "none", json |-> FALSE, body |-> NoneValue, decode |-> ""]

get_real_time_data_NoKeyCheck(api_key, resp) ==
    IF resp.status # "ok"
    THEN [value |-> NoneValue, requests |-> 1, errors |-> 1, raised |-> ""]
    ELSE IF resp.json
    THEN [value |-> resp.body, requests |-> 1, errors |-> 0, raised |-> ""]
    ELSE IF resp.decode = "RequestException"
    THEN [value |-> NoneValue, requests |-> 1, errors |-> 1, raised |-> ""]
    ELSE [value |-> NoneValue, requests |-> 1, errors |-> 0, raised |-> resp.decode]

get_real_time_data(api_key, resp) ==
    IF api_key = "None" \/ api_key = ""
    THEN [value |-> NoneValue, requests |-> 0, errors |-> 0, raised |-> ""]
    ELSE IF resp.status # "ok"
    THEN [value |-> NoneValue, requests |-> 1, errors |-> 1, raised |-> ""]
    ELSE IF resp.json
    THEN [value |-> resp.body, requests |-> 1, errors |-> 0, raised |-> ""]
    ELSE IF resp.decode = "RequestException"
    THEN [value |-> NoneValue, requests |-> 1, errors |-> 1, raised |-> ""]
    ELSE [value |-> NoneValue, requests |-> 1, errors |-> 0, raised |-> resp.decode]

----------------------------------------------------------------------------
(* Tabs (app.py 115-186) *)

tail(s, n) == SubSeq(s, IF Len(s) > n THEN Len(s) - n + 1 ELSE 1, Len(s))

tab1(historical_df) ==
    IF ~empty(historical_df) /\ "prcp" \in historical_df.cols
                             /\ "tavg" \in historical_df.cols
    THEN {"rainfall_chart", "temperature_chart"}
    ELSE {"warning"}

tab2(forecast_df) ==
    IF ~empty(forecast_df) THEN {"forecast_chart", "forecast_table"} ELSE {"warning"}

forecast_table(forecast_df) ==
    IF ~empty(forecast_df)
    THEN tail([i \in 1..Len(forecast_df.rows) |-> forecast_df.rows[i].ds], TableRows)
    ELSE <<>>

(* `if real_time_data:` is false for None, an empty list or string, and an  *)
(* empty dict                                                               *)
truthy(v) ==
    CASE v.kind = "None" -> FALSE
      [] v.kind = "dict" ->
            \/ v.extra
            \/ \E m \in {v.main, v.wind, v.weather, v.dt} : m.type # "absent"
      [] OTHER -> v.len > 0

(* v[name][key] of lines 150-154: what it raises, "" when it evaluates *)
Subscript2(v, member, key) ==
    IF v.kind # "dict" THEN "TypeError"
    ELSE IF member.type = "absent" THEN "KeyError"
    ELSE IF member.type # "dict" THEN "TypeError"
    ELSE IF key \notin member.keys THEN "KeyError"
    ELSE ""

(* v['weather'][0]['description'].capitalize() of line 156: the subscript   *)
(* 0 of a dict is a KeyError (the keys of a JSON object are strings), of an *)
(* empty list or string an IndexError; the subscript 'description' of       *)
(* anything but a dict is a TypeError; capitalize is a method of strings    *)
Description(v) ==
    IF v.kind # "dict" THEN "TypeError"
    ELSE IF v.weather.type = "absent" THEN "KeyError"
    ELSE IF v.weather.type = "dict" THEN "KeyError"
    ELSE IF v.weather.type = "str"
    THEN (IF v.weather.len = 0 THEN "IndexError" ELSE "TypeError")
    ELSE IF v.weather.type # "list" THEN "TypeError"
    ELSE IF Len(v.weather.items) = 0 THEN "IndexError"
    ELSE LET first == v.weather.items[1] IN
         IF first.type # "dict" THEN "TypeError"
         ELSE IF first.description = "absent" THEN "KeyError"
         ELSE IF first.description # "str" THEN "AttributeError"
         ELSE ""

(* datetime.fromtimestamp(v['dt']) of line 157, for the number 10^len       *)
(* (CPython on Linux, 64-bit time_t): a year after 9999 is a ValueError,    *)
(* a year beyond what localtime holds an OSError, a number beyond time_t    *)
(* an OverflowError                                                         *)
MaxTimestampExponent == 11
MaxLocaltimeExponent == 16
MaxTimeTExponent == 18

fromtimestamp(exponent) ==
    IF exponent <= MaxTimestampExponent THEN ""
    ELSE IF exponent <= MaxLocaltimeExponent THEN "ValueError"
    ELSE IF exponent <= MaxTimeTExponent THEN "OSError"
    ELSE "OverflowError"

Timestamp(v) ==
    IF v.kind # "dict" THEN "TypeError"
    ELSE IF v.dt.type = "absent" THEN "KeyError"
    ELSE IF v.dt.type # "number" THEN "TypeError"
    ELSE fromtimestamp(v.dt.len)

(* What lines 150-157 show, in order, and what evaluating each one raises *)
Metrics(v) ==
    <<[shows |-> "Temperature", raises |-> Subscript2(v, v.main, "temp")],
      [shows |-> "Humidity", raises |-> Subscript2(v, v.main, "humidity")],
      [shows |-> "Wind Speed", raises |-> Subscript2(v, v.wind, "speed")],
      [shows |-> "Current Condition", raises |-> Description(v)],
      [shows |-> "Last Updated", raises |-> Timestamp(v)]>>

(* The first of lines 150-157 that raises; one past the last when none does *)
FirstRaising(v) ==
    LET ms == Metrics(v) IN
    IF \A i \in 1..Len(ms) : ms[i].raises = ""
    THEN Len(ms) + 1
    ELSE CHOOSE i \in 1..Len(ms) :
            /\ ms[i].raises # ""
            /\ \A j \in 1..(i - 1) : ms[j].raises = ""

tab3(real_time_data) ==
    IF ~truthy(real_time_data)
    THEN [shown |-> {"warning"}, raised |-> ""]
    ELSE LET ms == Metrics(real_time_data)
             m == FirstRaising(real_time_data)
         IN [shown  |-> {ms[i].shows : i \in 1..(m - 1)},
             raised |-> IF m <= Len(ms) THEN ms[m].raises ELSE ""]

(* A name is the sequence of its characters, so that `in` is a substring test *)
Contains(text, word) ==
    \E i \in 1..(Len(text) - Len(word) + 1) :
        SubSeq(text, i, i + Len(word) - 1) = word

Cloudburst == <<"C", "l", "o", "u", "d", "b", "u", "r", "s", "t">>

landslide_hotspots ==
    <<[name |-> <<"N", "a", "g", "r", "o", "t", "a">>, risk |-> "High"],
      [name |-> <<"J", "a", "m", "m", "u", " ", "C", "i", "t", "y">>, risk |-> "Medium"]>>

marker(hotspot) ==
    [name  |-> hotspot.name,
     risk  |-> hotspot.risk,
     color |-> IF hotspot.risk = "High" THEN "red" ELSE "orange",
     icon  |-> IF Contains(hotspot.name, Cloudburst) THEN "cloud" ELSE "bolt"]

tab4 == [i \in 1..Len(landslide_hotspots) |-> marker(landslide_hotspots[i])]

NotRendered == [tab1 |-> {}, tab2 |-> {}, table |-> <<>>, tab3 |-> {}, tab4 |-> <<>>]

----------------------------------------------------------------------------
(* State machine: the dashboard *)

NoCalls == [fetch |-> "none", provider |-> 0, reads |-> 0,
            fits |-> 0, predicts |-> 0, resp |-> NoResponse, requests |-> 0, errors |-> 0]

EmptyCache == [k \in {} |-> EmptyDataFrame]

Crashed == {"crash_hist", "crash_forecast", "crash_realtime", "crash_tab3"}

Start ==
    /\ cache = EmptyCache
    /\ now = 0
    /\ pc = "hist"
    /\ hist = EmptyDataFrame
    /\ histSrc = "unset"
    /\ fc = EmptyDataFrame
    /\ rt = NoneValue
    /\ calls = NoCalls
    /\ tabs = NotRendered
    /\ exp = [at |-> "idle", fetch |-> "none", msg |-> "never"]

(* A deployment without an OpenWeather key, any provider dataset *)
InitData ==
    /\ remote \in ProviderFrames
    /\ apiKey = "None"
    /\ csv = NoFile
    /\ Start

(* Any key setting, a provider with a full dataset or with none *)
WeatherFrames ==
    {MkFrame(n, {"prcp", "tavg", "snow"}, 0, 0) : n \in {0, MaxRows}}

InitWeather ==
    /\ remote \in WeatherFrames
    /\ apiKey \in ApiKeys
    /\ csv = NoFile
    /\ Start

(* A deployment without a key that comes with a fallback file made by some  *)
(* other export: its first column, which read_csv makes the index, is       *)
(* headed 'time', 'ds', 'date' or nothing, and one of its lines may have    *)
(* no date                                                                  *)
IndexLabels == {"time", "ds", "date", ""}

BundledRows == (MaxRows - 2)..(MaxRows - 1)

Bundled(label, n, trail) ==
    to_csv([MkFrame(n, {"prcp", "tavg"}, trail, 0) EXCEPT !.index = label])

BundledFiles ==
    {Bundled(l, n, t) : l \in IndexLabels, n \in BundledRows, t \in NaNCounts}
    \cup {[Bundled(l, MaxRows - 1, 0) EXCEPT !.lines[2].key = NaT] : l \in {"time", "ds"}}

ForecastFrames ==
    {MkFrame(n, {"prcp", "tavg", "snow"}, 1, 0) : n \in {0, MaxRows}}

InitForecast ==
    /\ remote \in ForecastFrames
    /\ apiKey = "None"
    /\ Start
    /\ csv \in BundledFiles \cup {NoFile}

(* app.py 111, st.cache_data finds the arguments (lat, lon, start, end) *)
HistCacheHit ==
    /\ pc = "hist"
    /\ now \in DOMAIN cache
    /\ hist' = cache[now]
    /\ histSrc' = "cache"
    /\ pc' = "forecast"
    /\ UNCHANGED <<remote, csv, cache, now, apiKey, fc, rt, calls, tabs, exp>>

(* app.py 111, the arguments are new to the cache: the body runs *)
HistCacheMiss ==
    /\ pc = "hist"
    /\ now \notin DOMAIN cache
    /\ \E fetch \in {"ok", "raise"} :
         LET r == get_historical_data(fetch, remote, csv) IN
         /\ calls' = [calls EXCEPT !.fetch = fetch, !.provider = r.provider,
                                   !.reads = r.reads]
         /\ histSrc' = r.src
         /\ IF r.raised = ""
            THEN /\ hist' = r.df
                 /\ cache' = [k \in DOMAIN cache \cup {now} |->
                                IF k = now THEN r.df ELSE cache[k]]
                 /\ pc' = "forecast"
            ELSE /\ hist' = hist
                 /\ cache' = cache
                 /\ pc' = "crash_hist"
    /\ UNCHANGED <<remote, csv, now, apiKey, fc, rt, tabs, exp>>

(* app.py 112 *)
GetForecast ==
    /\ pc = "forecast"
    /\ LET r == get_forecast_data(hist) IN
         /\ calls' = [calls EXCEPT !.fits = r.fits, !.predicts = r.predicts]
         /\ fc' = r.df
         /\ pc' = IF r.raised = "" THEN "realtime" ELSE "crash_forecast"
    /\ UNCHANGED <<remote, csv, cache, now, apiKey, hist, histSrc, rt, tabs, exp>>

(* app.py 113; without a key no request is made and nothing answers; an    *)
(* exception that get_real_time_data does not catch ends the script         *)
GetRealTime ==
    /\ pc = "realtime"
    /\ \E resp \in IF apiKey \in {"None", ""} THEN {NoResponse} ELSE HttpOutcomes :
         LET r == get_real_time_data(apiKey, resp) IN
         /\ calls' = [calls EXCEPT !.requests = r.requests, !.errors = r.errors,
                                   !.resp = IF r.requests = 1 THEN resp ELSE NoResponse]
         /\ rt' = r.value
         /\ pc' = IF r.raised = "" THEN "render" ELSE "crash_realtime"
    /\ UNCHANGED <<remote, csv, cache, now, apiKey, hist, histSrc, fc, tabs, exp>>

(* app.py 115-186: the tabs in order; an exception in tab3 ends the script  *)
(* with tab3 as far as it got and tab4 not rendered                         *)
Render ==
    /\ pc = "render"
    /\ LET t3 == tab3(rt) IN
         /\ tabs' = [tab1 |-> tab1(hist), tab2 |-> tab2(fc),
                     table |-> forecast_table(fc), tab3 |-> t3.shown,
                     tab4 |-> IF t3.raised = "" THEN tab4 ELSE <<>>]
         /\ pc' = IF t3.raised = "" THEN "done" ELSE "crash_tab3"
    /\ UNCHANGED <<remote, csv, cache, now, apiKey, hist, histSrc, fc, rt, calls, exp>>

(* Streamlit reruns the script from the top; the clock has moved on by d    *)
(* (0 when two sessions read the same instant)                              *)
Rerun ==
    /\ pc \in {"done"} \cup Crashed
    /\ \E d \in 0..1 :
         /\ now + d <= MaxClock
         /\ now' = now + d
    /\ pc' = "hist"
    /\ hist' = EmptyDataFrame
    /\ histSrc' = "unset"
    /\ fc' = EmptyDataFrame
    /\ rt' = NoneValue
    /\ calls' = NoCalls
    /\ tabs' = NotRendered
    /\ UNCHANGED <<remote, csv, cache, apiKey, exp>>

----------------------------------------------------------------------------
(* State machine: get_data.py, a process of its own, step by step. The file *)
(* is written by df.to_csv, which opens it (it is empty from then on),      *)
(* writes the header and the lines, and closes it; a reader may see it      *)
(* empty, with part of its lines, or whole.                                 *)

ShouldSave_Always(df) == TRUE

ShouldSave(df) == ~empty(df)

PartLens == {MinProphetRows}

Partial(df) ==
    {Truncated(to_csv(df), n) : n \in {m \in PartLens : m < Len(df.rows)}}

(* get_data.py 14-19, 22-25: the fetch, and the ways the script ends without *)
(* touching the file                                                        *)
ExportFetch ==
    /\ exp.at = "idle"
    /\ \E fetch \in {"ok", "raise"} :
         exp' = IF fetch = "raise"
                THEN [at |-> "idle", fetch |-> "raise", msg |-> "error"]
                ELSE IF ~ShouldSave(remote)
                THEN [at |-> "idle", fetch |-> "ok", msg |-> "nodata"]
                ELSE [at |-> "to_csv", fetch |-> "ok", msg |-> "running"]
    /\ UNCHANGED <<remote, csv, cache, now, apiKey, pc, hist, histSrc, fc, rt, calls, tabs>>

(* get_data.py 20: to_csv opens the file for writing *)
ExportOpen ==
    /\ exp.at = "to_csv"
    /\ csv' = ZeroByteFile
    /\ exp' = [exp EXCEPT !.at = "writing"]
    /\ UNCHANGED <<remote, cache, now, apiKey, pc, hist, histSrc, fc, rt, calls, tabs>>

(* get_data.py 20-21: part of the lines reach the file, or the rest of them, *)
(* after which the script prints that it saved the data                     *)
ExportWrite ==
    /\ exp.at = "writing"
    /\ \/ /\ csv = ZeroByteFile
          /\ csv' \in Partial(remote)
          /\ exp' = exp
       \/ /\ csv' = to_csv(remote)
          /\ exp' = [at |-> "idle", fetch |-> "ok", msg |-> "saved"]
    /\ UNCHANGED <<remote, cache, now, apiKey, pc, hist, histSrc, fc, rt, calls, tabs>>

(* get_data.py 20, 24-25: to_csv raises, before opening the file or while   *)
(* writing it; the file stays as it is and the error is printed             *)
ExportFail ==
    /\ exp.at \in {"to_csv", "writing"}
    /\ exp' = [at |-> "idle", fetch |-> "ok", msg |-> "error"]
    /\ UNCHANGED <<remote, csv, cache, now, apiKey, pc, hist, histSrc, fc, rt, calls, tabs>>

Next ==
    \/ HistCacheHit
    \/ HistCacheMiss
    \/ GetForecast
    \/ GetRealTime
    \/ Render
    \/ Rerun
    \/ ExportFetch
    \/ ExportOpen
    \/ ExportWrite
    \/ ExportFail

SpecData == InitData /\ [][Next]_vars

SpecWeather == InitWeather /\ [][Next]_vars

SpecForecast == InitForecast /\ [][Next]_vars

----------------------------------------------------------------------------
(* Claims. The conditions are restated here from the claims' words, over    *)
(* the rows of the frames, not through the operators above.                 *)

AfterHist == {"forecast", "realtime", "render", "done"} \cup Crashed
AfterForecast == {"realtime", "render", "done", "crash_realtime", "crash_tab3"}
AfterRealTime == {"render", "done", "crash_tab3"}

CompleteRows(df) == Cardinality({i \in 1..Len(df.rows) : df.rows[i].nan = {}})

UsableRows(df) ==
    {i \in 1..Len(df.rows) : df.rows[i].ds # NaT /\ "prcp" \notin df.rows[i].nan}

UsableDates(df) == {df.rows[i].ds : i \in UsableRows(df)}

LastDate(df) == CHOOSE d \in UsableDates(df) : \A e \in UsableDates(df) : e <= d

\* C1: get_historical_data returns the provider's frame exactly when the fetch
\* raised nothing and the frame is non-empty, has a 'prcp' column and more than
\* 30 rows without a missing value; in every other case it contacts the
\* provider once and no more, makes exactly one attempt to load the CSV, and
\* what it returns is what that attempt loaded from the file as it was then.
C1_ProviderOrFallback ==
    [][ (pc = "hist" /\ pc' # "hist" /\ histSrc' # "cache") =>
          /\ (histSrc' = "meteostat") <=>
                /\ calls'.fetch = "ok"
                /\ Len(remote.rows) > 0 /\ remote.cols # {}
                /\ "prcp" \in remote.cols
                /\ CompleteRows(remote) > 30
          /\ histSrc' = "meteostat" =>
                /\ hist' = remote /\ pc' = "forecast"
                /\ calls'.provider = 1 /\ calls'.reads = 0
          /\ histSrc' # "meteostat" =>
                /\ calls'.provider = 1 /\ calls'.reads = 1
                /\ csv.kind = "text" =>
                      /\ histSrc' = "csv" /\ pc' = "forecast"
                      /\ hist'.index = csv.header.label
                      /\ hist'.cols = csv.header.names
                      /\ Len(hist'.rows) = Len(csv.lines)
                      /\ \A i \in 1..Len(csv.lines) :
                            /\ hist'.rows[i].ds = csv.lines[i].key
                            /\ hist'.rows[i].nan = csv.lines[i].blank
      ]_vars

\* C1 witness: the provider answered with more than 30 rows, 30 or fewer of them
\* complete, and the run got the CSV's (different) frame instead.
C1_Witness ==
    /\ pc \in AfterHist /\ histSrc = "csv" /\ calls.fetch = "ok"
    /\ Len(remote.rows) > 30 /\ CompleteRows(remote) = 30
    /\ hist # remote /\ ~empty(hist)

\* C2: a forecast made from N usable rows (with a date and a prcp value)
\* covers the N dates of those rows and then exactly 15 consecutive days after
\* the last of them; the 15 rows of the Forecast tab's table are those 15
\* future days and hold no historical date.
C2_FifteenFutureDays ==
    (pc \in AfterForecast /\ calls.fits = 1) =>
        LET N == Cardinality(UsableRows(hist))
            last == LastDate(hist)
        IN  /\ Len(fc.rows) = N + 15
            /\ {fc.rows[i].ds : i \in 1..N} = UsableDates(hist)
            /\ \A j \in 1..15 : fc.rows[N + j].ds = last + j
            /\ pc = "done" =>
                  /\ tabs.table = [j \in 1..15 |-> last + j]
                  /\ \A j \in 1..Len(tabs.table) :
                        tabs.table[j] \notin UsableDates(hist)

\* C2 witness: a forecast was rendered from a fallback file indexed 'ds' with
\* one line without a date and exactly 30 usable rows, none of them the
\* file's second line.
C2_Witness ==
    /\ pc = "done" /\ calls.fits = 1 /\ Len(tabs.table) = 15
    /\ hist.index = "ds" /\ hist.rows[2].ds = NaT
    /\ Cardinality(UsableRows(hist)) = 30

\* C3: without an api key get_real_time_data returns None and issues no HTTP
\* request; with a key it issues exactly one request, returns the parsed
\* response on success (a 2xx answer whose body parses), and returns None
\* after reporting an error, the run going on to the tabs, when the request
\* times out, cannot connect or gets an error status.
C3_RealTime ==
    LET failed == calls.resp.status \in {"Timeout", "ConnectionError", "HTTPError"}
        parsed == calls.resp.status = "ok" /\ calls.resp.json
    IN
    /\ (calls.requests > 0 /\ (failed \/ parsed)) => pc \in AfterRealTime
    /\ pc \in AfterRealTime \cup {"crash_realtime"} =>
          /\ apiKey \in {"None", ""} =>
                /\ rt = NoneValue /\ calls.requests = 0 /\ calls.errors = 0
                /\ pc # "crash_realtime"
          /\ apiKey \notin {"None", ""} =>
                /\ calls.requests = 1
                /\ parsed => rt = calls.resp.body /\ calls.errors = 0
                /\ failed => rt = NoneValue /\ calls.errors = 1

\* C3 witness: a run with a key whose one request timed out went on with None.
C3_Witness ==
    /\ pc = "done" /\ apiKey = "k3y" /\ calls.resp.status = "Timeout"
    /\ rt = NoneValue /\ calls.requests = 1 /\ calls.errors = 1

\* C4: get_data.py changes 'jammu_historical_weather.csv' only when its fetch
\* succeeded with a non-empty frame; when the provider returns an empty frame
\* or the fetch raises, the file is left as it was (none is created), and the
\* script ends normally with its message printed.
C4_ExportWritesOnlyData ==
    [][ /\ csv' # csv =>
              /\ exp.at \in {"to_csv", "writing"} /\ exp.fetch = "ok"
              /\ Len(remote.rows) > 0 /\ remote.cols # {}
        /\ (exp.at = "idle" /\ exp'.fetch = "raise") =>
              csv' = csv /\ exp'.at = "idle" /\ exp'.msg = "error"
        /\ (exp.at = "idle" /\ (Len(remote.rows) = 0 \/ remote.cols = {})) =>
              /\ csv' = csv /\ exp'.at = "idle"
              /\ exp' # exp => exp'.msg \in {"nodata", "error"}
      ]_vars

\* C4 witness: an export whose fetch raised left the file of an earlier export.
C4_Witness ==
    /\ exp.at = "idle" /\ exp.fetch = "raise" /\ exp.msg = "error"
    /\ csv.kind = "text" /\ Len(csv.lines) = Len(remote.rows)

\* C5 (as claimed): get_forecast_data returns an empty frame without fitting
\* whenever the frame is empty, has no 'prcp' column, or keeps fewer than 30
\* rows once the rows with a missing date or prcp are dropped; it fits (once)
\* and predicts (once) only when at least 30 such rows remain.
C5_ForecastThreshold ==
    pc \in AfterForecast \cup {"crash_forecast"} =>
        /\ (\/ Len(hist.rows) = 0 \/ hist.cols = {}
            \/ "prcp" \notin hist.cols
            \/ Cardinality(UsableRows(hist)) < 30) =>
              /\ pc # "crash_forecast"
              /\ fc = EmptyDataFrame /\ calls.fits = 0 /\ calls.predicts = 0
        /\ calls.fits <= 1 /\ calls.predicts = calls.fits
        /\ calls.fits = 1 =>
              Cardinality(UsableRows(hist)) >= 30 /\ Len(fc.rows) > 0

\* C6 (as claimed): once an earlier run's get_historical_data has returned, a
\* later run is served from the cache: it neither contacts the provider nor
\* reads the fallback CSV.
C6_RerunServedFromCache ==
    (pc \in AfterHist /\ \E k \in DOMAIN cache : k # now) =>
        /\ histSrc = "cache"
        /\ calls.provider = 0 /\ calls.reads = 0

\* C7 (as claimed): in every run each data tab renders exactly one of its
\* content or its warning, by its condition (the Real-time tab its metrics iff
\* real-time data was loaded), and the Risk Map tab renders the map with its
\* two markers, red for risk 'High' and orange otherwise.
C7_TabsRenderOneOfTwo ==
    pc \in {"done"} \cup Crashed =>
        /\ tabs.tab1 = IF Len(hist.rows) > 0 /\ {"prcp", "tavg"} \subseteq hist.cols
                       THEN {"rainfall_chart", "temperature_chart"}
                       ELSE {"warning"}
        /\ tabs.tab2 = IF Len(fc.rows) > 0 THEN {"forecast_chart", "forecast_table"}
                       ELSE {"warning"}
        /\ tabs.tab3 = IF rt.kind # "None"
                       THEN {"Temperature", "Humidity", "Wind Speed",
                             "Current Condition", "Last Updated"}
                       ELSE {"warning"}
        /\ Len(tabs.tab4) = 2
        /\ \A i \in 1..Len(tabs.tab4) :
              tabs.tab4[i].color = IF tabs.tab4[i].risk = "High" THEN "red" ELSE "orange"

\* C8 (as claimed): get_historical_data always returns a frame and never lets
\* an exception reach the script: a failed provider fetch leads to the fallback
\* load, and a failed fallback load to an empty frame, with which the forecast
\* is empty and the Historical and Forecast tabs show their warnings.
C8_AlwaysReturnsFrame ==
    /\ histSrc # "raised" /\ pc # "crash_hist"
    /\ (pc \in AfterHist /\ histSrc # "cache" /\ calls.fetch = "raise") =>
          calls.reads = 1
    /\ histSrc = "none" =>
          /\ hist = EmptyDataFrame
          /\ pc \in AfterForecast => fc = EmptyDataFrame
          /\ pc = "done" => tabs.tab1 = {"warning"} /\ tabs.tab2 = {"warning"}

====
